---- MODULE Spec2Model ----
(***************************************************************************)
(* A model of res/res_stir_shaken.c: the STIR/SHAKEN public-key cache      *)
(* (AstDB records + key files), ast_stir_shaken_verify and                 *)
(* ast_stir_shaken_sign.                                                   *)
(*                                                                         *)
(* C strings are sequences of one-character strings (<<>> is "").          *)
(* A header value is a sequence of lexemes: the directive names            *)
(* "s-maxage" and "max-age" are single lexemes, every other character is   *)
(* a lexeme of its own.                                                    *)
(***************************************************************************)
EXTENDS Integers, Sequences, FiniteSets, TLC

(***************************************************************************)
(* Bounds of the model                                                     *)
(***************************************************************************)
\* the clock runs from 1 to MaxTime (whole seconds)
MaxTime == 3
\* largest max-age / s-maxage value the key server hands out
MaxAge == 2

(***************************************************************************)
(* Program constants                                                       *)
(***************************************************************************)
\* char time_buf[32]
TimeBufSize == 32
\* the field width of "%30lu"
TimeBufWidth == 30
\* sizeof(*file_path), the size handed to snprintf for the default path
SizeofFilePathDeref == 1

STIR_SHAKEN_ENCRYPTION_ALGORITHM == "ES256"
STIR_SHAKEN_PPT == "shaken"
STIR_SHAKEN_TYPE == "passport"
AST_DB_FAMILY == "STIR_SHAKEN"
STIR_SHAKEN_DIR_NAME == <<"s","t","i","r","_","s","h","a","k","e","n">>

(***************************************************************************)
(* C strings                                                               *)
(***************************************************************************)
Min(a, b) == IF a < b THEN a ELSE b

DigitChars == <<"0","1","2","3","4","5","6","7","8","9">>

IsDigit(c) == \E i \in 1..10 : DigitChars[i] = c

DigitVal(c) == (CHOOSE i \in 1..10 : DigitChars[i] = c) - 1

\* ast_strlen_zero on a (non-NULL) string
StrlenZero(s) == Len(s) = 0

\* snprintf(buf, size, "%s", s): at most size-1 characters are written
Snprintf(size, s) == SubSeq(s, 1, Min(Len(s), size - 1))

\* the decimal digits of n ("%lu")
RECURSIVE FormatULong(_)
FormatULong(n) ==
    IF n < 10 THEN <<DigitChars[n + 1]>>
    ELSE FormatULong(n \div 10) \o <<DigitChars[(n % 10) + 1]>>

\* "%30lu": right-justified in a field of `width`, padded with spaces
PadLeft(s, width) ==
    IF Len(s) >= width THEN s
    ELSE [i \in 1..(width - Len(s)) |-> " "] \o s

\* snprintf(time_buf, sizeof(time_buf), "%30lu", tv_sec)
FormatExpiration(sec) == Snprintf(TimeBufSize, PadLeft(FormatULong(sec), TimeBufWidth))

\* the white space ast_str_to_umax skips (str_is_negative / strtoumax)
RECURSIVE SkipSpace(_)
SkipSpace(s) ==
    IF Len(s) > 0 /\ Head(s) = " " THEN SkipSpace(Tail(s)) ELSE s

\* the value of a digit string in the given base, most significant first
RECURSIVE DigitsValue(_, _)
DigitsValue(s, base) ==
    IF Len(s) = 0 THEN 0
    ELSE DigitsValue(SubSeq(s, 1, Len(s) - 1), base) * base + DigitVal(s[Len(s)])

\* ast_str_to_ulong / ast_str_to_uint: leading white space is skipped, a
\* leading '-' is refused, the digits are read by strtoumax(str, &end, 0)
\* (a leading 0 selects octal) and anything left over after them is an error.
\* The result is [ok |-> the conversion succeeded, val |-> its value].
StrToULong(str) ==
    LET s == SkipSpace(str)
        octal == Len(s) > 1 /\ s[1] = "0"
        base == IF octal THEN 8 ELSE 10
        wellFormed == /\ Len(s) > 0
                      /\ \A i \in 1..Len(s) : IsDigit(s[i]) /\ DigitVal(s[i]) < base
    IN  IF wellFormed THEN [ok |-> TRUE, val |-> DigitsValue(s, base)]
        ELSE [ok |-> FALSE, val |-> 0]

\* strstr(value, name) for a directive name: the index of the first lexeme
\* equal to it, 0 when there is none
StrStr(value, name) ==
    IF \E i \in 1..Len(value) : value[i] = name
    THEN CHOOSE i \in 1..Len(value) :
            value[i] = name /\ \A j \in 1..(i - 1) : value[j] # name
    ELSE 0

\* strchr(value + from - 1, c): the index of the first c at or after `from`
StrChrFrom(value, from, c) ==
    IF \E i \in from..Len(value) : value[i] = c
    THEN CHOOSE i \in from..Len(value) :
            value[i] = c /\ \A j \in from..(i - 1) : value[j] # c
    ELSE 0

\* basename(url): what follows the last '/'
RECURSIVE Basename(_)
Basename(s) ==
    IF \E i \in 1..Len(s) : s[i] = "/"
    THEN Basename(SubSeq(s, 1 + StrChrFrom(s, 1, "/"), Len(s)))
    ELSE s

(***************************************************************************)
(* The values the model works on                                           *)
(***************************************************************************)
\* the threads that may be inside ast_stir_shaken_verify
Procs == {1, 2}

\* a NULL char pointer, where it has to be told from ""
NullStr == <<"<null>">>

\* the public key URL the calls are about
Url1 == <<"h", ":", "/", "/", "c", "/", "k">>

\* ast_config_AST_DATA_DIR (configuration)
DataDir == <<"/", "d">>

\* a path recorded in AstDB by an earlier run (see the comment at 451-460)
CachedPath == <<"/", "o", "/", "k">>

\* "%s/keys/%s/%s" with all of it written out
FullDefaultPath(url) ==
    DataDir \o <<"/", "k", "e", "y", "s", "/">> \o STIR_SHAKEN_DIR_NAME
            \o <<"/">> \o Basename(url)

\* the files the model's filesystem can hold; any other name, "" included,
\* cannot be opened
KeyPaths == {CachedPath, FullDefaultPath(Url1)}

\* what is at a path: nothing, bytes that are no PEM public key, or the
\* PEM of the signer's public key
FileStates == {"absent", "corrupt", "pem"}

\* the one key pair of the model: the certificate's private key and the
\* public key the server publishes for it
KeyPair == "K"

Absent == "<absent>"

\* a JSON header object: its string members, Absent for a missing one
\* (NullStr for x5u, which holds a URL)
NoHdr == [ppt |-> Absent, typ |-> Absent, alg |-> Absent, x5u |-> NullStr]

\* a JSON payload object: orig (an object or missing), orig.tn, attest,
\* origid (strings, Absent for a missing one), iat (an integer, -1 missing)
NoPl == [orig |-> FALSE, tn |-> Absent, attest |-> Absent, origid |-> Absent,
         iat |-> -1]

\* the JSON handed to sign: header and payload members, each there or not
NoJwt == [hasHeader |-> FALSE, header |-> NoHdr, hasPayload |-> FALSE,
          payload |-> NoPl]

\* a char* argument holding JSON text: NULL, "", text that is no JSON, or
\* the serialisation of a header / payload object
NullText == [k |-> "null", hdr |-> NoHdr, pl |-> NoPl]
EmptyText == [k |-> "empty", hdr |-> NoHdr, pl |-> NoPl]
GarbageText == [k |-> "garbage", hdr |-> NoHdr, pl |-> NoPl]

\* ast_json_dump_string of a header / payload object
DumpHdr(h) == [k |-> "json", hdr |-> h, pl |-> NoPl]
DumpPl(q) == [k |-> "json", hdr |-> NoHdr, pl |-> q]

TextStrlenZero(t) == t.k \in {"null", "empty"}

\* ast_json_load_string: NULL (FALSE) unless the text is JSON
JsonLoads(t) == t.k = "json"

\* the message a signature was made over: the payload argument of verify,
\* or the serialisation of a whole JSON object (sign)
NoMsg == [scope |-> "none", text |-> NullText, jwt |-> NoJwt]
PayloadMsg(text) == [scope |-> "payload", text |-> text, jwt |-> NoJwt]
JwtMsg(json) == [scope |-> "jwt", text |-> NullText, jwt |-> json]

\* a signature string: NULL, "", or the base64 of a signature of msg
\* made with the private key of `key`
NullSig == [k |-> "null", msg |-> NoMsg, key |-> Absent]
EmptySig == [k |-> "empty", msg |-> NoMsg, key |-> Absent]
Base64Sig(msg, key) == [k |-> "b64", msg |-> msg, key |-> key]

SigStrlenZero(s) == s.k \in {"null", "empty"}

UrlStrlenZero(u) == u = NullStr \/ Len(u) = 0

AlgStrlenZero(a) == a = Absent \/ a = ""

\* struct ast_stir_shaken_payload
NoPayload ==
    [header |-> NoHdr, payload |-> NoPl, signature |-> NullSig,
     algorithm |-> Absent, public_key_url |-> NullStr]

(***************************************************************************)
(* AstDB: the index family STIR_SHAKEN[url] = hash and the per-key family  *)
(* hash[{path, expiration}].  A function is defined on the keys present.   *)
(***************************************************************************)
\* ast_sha1_hash: an opaque, collision-free key made from the URL
Sha1Hash(url) == <<"#">> \o url

\* ast_db_get: the value, "" when the key is missing
DbGet(tree, family, key) ==
    IF <<family, key>> \in DOMAIN tree THEN tree[<<family, key>>] ELSE <<>>

\* ast_db_put
DbPut(tree, family, key, value) ==
    [k \in (DOMAIN tree) \cup {<<family, key>>} |->
        IF k = <<family, key>> THEN value ELSE tree[k]]

\* ast_db_deltree(family, NULL)
DbDelTree(tree, family) ==
    [k \in {x \in DOMAIN tree : x[1] # family} |-> tree[k]]

\* ast_db_put(AST_DB_FAMILY, url, hash)
IndexPut(index, url, hash) ==
    [k \in (DOMAIN index) \cup {url} |-> IF k = url THEN hash ELSE index[k]]

\* ast_db_del(AST_DB_FAMILY, url)
IndexDel(index, url) == [k \in (DOMAIN index) \ {url} |-> index[k]]

EmptyDb == [k \in {} |-> <<>>]

(***************************************************************************)
(* The filesystem                                                          *)
(***************************************************************************)
\* remove(filepath): best effort, a name that is no file changes nothing
FsRemove(fs, path) ==
    [q \in DOMAIN fs |-> IF q = path THEN "absent" ELSE fs[q]]

\* the fetcher writing the response body to dest
FsWrite(fs, path, content) ==
    [q \in DOMAIN fs |-> IF q = path THEN content ELSE fs[q]]

\* stir_shaken_read_key(path, 0): the public key, Absent (NULL) when the
\* file cannot be opened or holds no PEM public key
StirShakenReadKey(fs, path) ==
    IF path \in DOMAIN fs /\ fs[path] = "pem" THEN KeyPair ELSE Absent

(***************************************************************************)
(* The key server, as the fetcher (curl_public_key) sees it                *)
(***************************************************************************)
\* the Expires response header: there or not, and the epoch second its
\* date names
NoExpires == [present |-> FALSE, epoch |-> 0]

\* the cache metadata the model's server sends: none, max-age, Expires
ServerData ==
    {[cache_control |-> <<>>, expires |-> NoExpires],
     [cache_control |-> <<"max-age", "=", DigitChars[MaxAge + 1]>>,
      expires |-> NoExpires],
     [cache_control |-> <<>>, expires |-> [present |-> TRUE, epoch |-> MaxTime]]}

\* what the server does with a request for the key: refuse it, or answer
\* with a body and cache metadata
DownServer ==
    [up |-> FALSE, body |-> "corrupt",
     data |-> [cache_control |-> <<>>, expires |-> NoExpires]]

Servers ==
    {DownServer} \cup [up : {TRUE}, body : {"pem", "corrupt"}, data : ServerData]

(***************************************************************************)
(* Key store operations                                                    *)
(***************************************************************************)
\* ast_tvcmp(a, b) for struct timeval [sec, usec]
AstTvCmp(a, b) ==
    IF a.sec < b.sec THEN -1
    ELSE IF a.sec > b.sec THEN 1
    ELSE IF a.usec < b.usec THEN -1
    ELSE IF a.usec > b.usec THEN 1
    ELSE 0

\* the str_max_age the code settles on: s-maxage if it occurs, else max-age
StrMaxAge(value) ==
    IF StrStr(value, "s-maxage") # 0 THEN StrStr(value, "s-maxage")
    ELSE StrStr(value, "max-age")

\* strptime(value, "%a, %d %b %Y %T %z", &expires_time) and
\* mktime(&expires_time), lines 185-187: the date and time of day of the
\* header are read as the host's local time (mktime does not look at the
\* zone), so a host `tzone` east of UTC gets the header's epoch less tzone
StrptimeMktime(expires, tzone) == expires.epoch - tzone

\* actual_expires.tv_sec as set_public_key_expiration computes it when run
\* at second nowSec on a host tzone east of UTC
ActualExpires(data, nowSec, tzone) ==
    LET value == data.cache_control
    IN  IF ~StrlenZero(value)
        THEN LET str_max_age == StrMaxAge(value)
                 equal == IF str_max_age = 0 THEN 0
                          ELSE StrChrFrom(value, str_max_age, "=")
                 max_age == IF equal = 0 THEN [ok |-> FALSE, val |-> 0]
                            ELSE StrToULong(SubSeq(value, equal + 1, Len(value)))
             IN  IF max_age.ok THEN nowSec + max_age.val ELSE nowSec
        ELSE IF data.expires.present THEN StrptimeMktime(data.expires, tzone)
        ELSE nowSec

\* set_public_key_expiration: the AstDB after it
SetPublicKeyExpiration(tree, url, data, nowSec, tzone) ==
    DbPut(tree, Sha1Hash(url), "expiration",
          FormatExpiration(ActualExpires(data, nowSec, tzone)))

\* public_key_is_expired, expiring every key one second early
PublicKeyIsExpiredEarly(tree, url, tv) ==
    LET expiration == DbGet(tree, Sha1Hash(url), "expiration")
        parsed == StrToULong(expiration)
    IN  IF StrlenZero(expiration) THEN TRUE
        ELSE IF ~parsed.ok THEN TRUE
        ELSE AstTvCmp([sec |-> tv.sec + 1, usec |-> tv.usec],
                      [sec |-> parsed.val, usec |-> 0]) # -1

\* public_key_is_expired taking a key for expired only after its expiration
PublicKeyIsExpiredLate(tree, url, tv) ==
    LET expiration == DbGet(tree, Sha1Hash(url), "expiration")
        parsed == StrToULong(expiration)
    IN  IF StrlenZero(expiration) THEN TRUE
        ELSE IF ~parsed.ok THEN TRUE
        ELSE AstTvCmp(tv, [sec |-> parsed.val, usec |-> 0]) = 1

\* public_key_is_expired at time tv
PublicKeyIsExpired(tree, url, tv) ==
    LET expiration == DbGet(tree, Sha1Hash(url), "expiration")
        parsed == StrToULong(expiration)
    IN  IF StrlenZero(expiration) THEN TRUE
        ELSE IF ~parsed.ok THEN TRUE
        ELSE AstTvCmp(tv, [sec |-> parsed.val, usec |-> 0]) # -1

\* get_path_to_public_key
GetPathToPublicKey(tree, url) == DbGet(tree, Sha1Hash(url), "path")

\* the default path of verify: snprintf(file_path, sizeof(*file_path), ...)
DefaultFilePath(url) == Snprintf(SizeofFilePathDeref, FullDefaultPath(url))

\* curl_and_check_expiration without its test of curl
CurlNeverRun(curlIsNull, curlValue) == FALSE

\* the test `if (curl)` of curl_and_check_expiration: curl is the pointer
\* handed in (&curl of verify, never NULL), curlValue the int it points to
CurlAlreadyRun(curlIsNull, curlValue) == ~curlIsNull

\* the checks at the top of verify, the one of header left out
VerifyInputMissingButHeader(a) ==
    \/ TextStrlenZero(a.payload)
    \/ SigStrlenZero(a.signature)
    \/ AlgStrlenZero(a.algorithm)
    \/ UrlStrlenZero(a.public_key_url)

\* the five checks at the top of ast_stir_shaken_verify
VerifyInputMissing(a) ==
    \/ TextStrlenZero(a.header)
    \/ TextStrlenZero(a.payload)
    \/ SigStrlenZero(a.signature)
    \/ AlgStrlenZero(a.algorithm)
    \/ UrlStrlenZero(a.public_key_url)

\* stir_shaken_verify_signature: the signature is one of msg made with the
\* private key that goes with public_key
StirShakenVerifySignature(msg, signature, public_key) ==
    /\ signature.k = "b64"
    /\ signature.key = public_key
    /\ signature.msg = PayloadMsg(msg)

(***************************************************************************)
(* ast_stir_shaken_sign                                                    *)
(***************************************************************************)
\* ast_strlen_zero(ast_json_string_get(...)): a missing member, a member
\* that is no string, or ""
JsonStrlenZero(v) == v = Absent \/ v = ""

\* stir_shaken_verify_json with the value of typ left unchecked
VerifyJsonCheckAnyTyp(json) ==
    IF ~json.hasHeader THEN "header"
    ELSE IF JsonStrlenZero(json.header.ppt) THEN "ppt"
    ELSE IF json.header.ppt # STIR_SHAKEN_PPT THEN "ppt"
    ELSE IF JsonStrlenZero(json.header.typ) THEN "typ"
    ELSE IF JsonStrlenZero(json.header.alg) THEN "alg"
    ELSE IF json.header.alg # STIR_SHAKEN_ENCRYPTION_ALGORITHM THEN "alg"
    ELSE IF ~json.hasPayload THEN "payload"
    ELSE IF ~json.payload.orig \/ JsonStrlenZero(json.payload.tn) THEN "orig->tn"
    ELSE "ok"

\* stir_shaken_verify_json: "ok", or the field whose check fails first
VerifyJsonCheck(json) ==
    IF ~json.hasHeader THEN "header"
    ELSE IF JsonStrlenZero(json.header.ppt) THEN "ppt"
    ELSE IF json.header.ppt # STIR_SHAKEN_PPT THEN "ppt"
    ELSE IF JsonStrlenZero(json.header.typ) THEN "typ"
    ELSE IF json.header.typ # STIR_SHAKEN_TYPE THEN "typ"
    ELSE IF JsonStrlenZero(json.header.alg) THEN "alg"
    ELSE IF json.header.alg # STIR_SHAKEN_ENCRYPTION_ALGORITHM THEN "alg"
    ELSE IF ~json.hasPayload THEN "payload"
    ELSE IF ~json.payload.orig \/ JsonStrlenZero(json.payload.tn) THEN "orig->tn"
    ELSE "ok"

\* the payload stir_shaken_verify_json returns for JSON that passes: deep
\* copies of header and payload, and the algorithm; nothing else is set
StirShakenVerifyJson(json) ==
    [NoPayload EXCEPT !.header = json.header, !.algorithm = json.header.alg,
                      !.payload = json.payload]

\* stir_shaken_certificate_get_by_caller_id_number: the store has one
\* certificate, for "+1555"
CertificateGetByCallerIdNumber(tn) ==
    IF tn = "+1555"
    THEN [found |-> TRUE, public_key_url |-> Url1, private_key |-> KeyPair]
    ELSE [found |-> FALSE, public_key_url |-> NullStr, private_key |-> Absent]

\* the steps of sign that can fail for want of memory or in the crypto
\* library
SignFaults == {"none", "x5u", "attest", "origid", "iat", "dump", "sign"}

\* stir_shaken_add_iat: tv.tv_sec + tv.tv_usec / 1000
IatTimestamp(tv) == tv.sec + (tv.usec \div 1000)

\* ao2_cleanup(cert) dropping nothing
Ao2CleanupLeaks(refs) == 0

\* ao2_cleanup(cert), lines 897 and 902: the references held on the
\* certificate are released (none when cert is NULL)
Ao2Cleanup(refs) == refs

\* ast_stir_shaken_sign on `json` at time tv, with `fault` the step that
\* fails: what is returned, the caller's JSON afterwards, the number of
\* certificate lookups, and the certificate references taken and released
AstStirShakenSign(json, fault, tv) ==
    LET payload == StirShakenVerifyJson(json)
        cert == CertificateGetByCallerIdNumber(json.payload.tn)
        j1 == [json EXCEPT !.header.x5u = cert.public_key_url]
        j2 == [j1 EXCEPT !.payload.attest = "B"]
        j3 == [j2 EXCEPT !.payload.origid = "asterisk"]
        j4 == [j3 EXCEPT !.payload.iat = IatTimestamp(tv)]
        Cleanup(j, lookups, refs) ==
            [ret |-> "NULL", payload |-> NoPayload, json |-> j,
             lookups |-> lookups, acquired |-> refs,
             released |-> Ao2Cleanup(refs)]
    IN  IF VerifyJsonCheck(json) # "ok" THEN Cleanup(json, 0, 0)
        ELSE IF ~cert.found THEN Cleanup(json, 1, 0)
        ELSE IF fault = "x5u" THEN Cleanup(json, 1, 1)
        ELSE IF fault = "attest" THEN Cleanup(j1, 1, 1)
        ELSE IF fault = "origid" THEN Cleanup(j2, 1, 1)
        ELSE IF fault = "iat" THEN Cleanup(j3, 1, 1)
        ELSE IF fault \in {"dump", "sign"} THEN Cleanup(j4, 1, 1)
        ELSE [ret |-> "payload",
              payload |-> [payload EXCEPT
                             !.signature = Base64Sig(JwtMsg(j4), cert.private_key)],
              json |-> j4, lookups |-> 1, acquired |-> 1,
              released |-> Ao2Cleanup(1)]

(***************************************************************************)
(* Inputs                                                                  *)
(***************************************************************************)
\* a PASSporT header and payload as they arrive on the wire
WireHdr ==
    [ppt |-> STIR_SHAKEN_PPT, typ |-> STIR_SHAKEN_TYPE,
     alg |-> STIR_SHAKEN_ENCRYPTION_ALGORITHM, x5u |-> Url1]

WirePl ==
    [orig |-> TRUE, tn |-> "+1555", attest |-> "B", origid |-> "asterisk",
     iat |-> 1]

\* five arguments under which a verification can succeed
GoodArgs ==
    [header |-> DumpHdr(WireHdr), payload |-> DumpPl(WirePl),
     signature |-> Base64Sig(PayloadMsg(DumpPl(WirePl)), KeyPair),
     algorithm |-> STIR_SHAKEN_ENCRYPTION_ALGORITHM, public_key_url |-> Url1]

\* GoodArgs and its variations in one argument
VerifyArgs ==
    {GoodArgs}
    \cup {[GoodArgs EXCEPT !.header = t] : t \in {EmptyText, GarbageText}}
    \cup {[GoodArgs EXCEPT !.payload = t] : t \in {NullText, GarbageText}}
    \cup {[GoodArgs EXCEPT !.payload = GarbageText,
                           !.signature = Base64Sig(PayloadMsg(GarbageText), KeyPair)]}
    \cup {[GoodArgs EXCEPT !.signature = g] :
            g \in {EmptySig, Base64Sig(PayloadMsg(GarbageText), KeyPair)}}
    \cup {[GoodArgs EXCEPT !.algorithm = a] : a \in {"", "RS256"}}
    \cup {[GoodArgs EXCEPT !.public_key_url = u] : u \in {NullStr, <<>>}}

\* the arguments a caller takes from a payload that sign returned
ArgsOfPayload(payload) ==
    [header |-> DumpHdr(payload.header), payload |-> DumpPl(payload.payload),
     signature |-> payload.signature, algorithm |-> payload.algorithm,
     public_key_url |-> payload.public_key_url]

\* a well-formed JSON for sign, whose caller has a certificate
GoodJwt ==
    [hasHeader |-> TRUE,
     header |-> [ppt |-> STIR_SHAKEN_PPT, typ |-> STIR_SHAKEN_TYPE,
                 alg |-> STIR_SHAKEN_ENCRYPTION_ALGORITHM, x5u |-> NullStr],
     hasPayload |-> TRUE,
     payload |-> [NoPl EXCEPT !.orig = TRUE, !.tn = "+1555"]]

\* the JSON objects sign is tried on next to verify: well-formed with and
\* without a certificate, and one that fails the profile
SignInputs ==
    {GoodJwt, [GoodJwt EXCEPT !.payload.tn = "+1999"],
     [GoodJwt EXCEPT !.header.typ = "jwt"]}

\* every shape of JSON object the validator tells apart
AllJwts ==
    {j \in [hasHeader : BOOLEAN,
            header : [ppt : {Absent, "", STIR_SHAKEN_PPT, "div"},
                      typ : {Absent, "", STIR_SHAKEN_TYPE, "jwt"},
                      alg : {Absent, "", STIR_SHAKEN_ENCRYPTION_ALGORITHM, "RS256"},
                      x5u : {NullStr}],
            hasPayload : BOOLEAN,
            payload : [orig : BOOLEAN, tn : {Absent, "", "+1555", "+1999"},
                       attest : {Absent}, origid : {Absent}, iat : {-1}]] :
        /\ ~j.hasHeader => j.header = NoHdr
        /\ ~j.hasPayload => j.payload = NoPl
        /\ ~j.payload.orig => j.payload.tn = Absent}

(***************************************************************************)
(* State                                                                   *)
(***************************************************************************)
VARIABLES
    now,          \* ast_tvnow().tv_sec
    astdbIndex,   \* AstDB family STIR_SHAKEN: url -> hash
    astdbTree,    \* AstDB families hash: <<hash, key>> -> value
    files,        \* the key files: path -> what is there
    th,           \* per thread: where it is in verify, and verify's locals
    prev,         \* the last verify call, if it returned a payload
    sg,           \* the last sign call
    certRefs,     \* reference count of the certificate object
    tz,           \* the host's local time, as an offset east of UTC
    ks,           \* the last key store operation called on its own
    b64           \* the last decoded-length computation

vars == <<now, astdbIndex, astdbTree, files, th, prev, sg, certRefs, tz, ks, b64>>

\* the AstDB and key files, as one value
Store == [index |-> astdbIndex, tree |-> astdbTree, files |-> files]

NoStore == [index |-> EmptyDb, tree |-> EmptyDb,
            files |-> [q \in KeyPaths |-> "absent"]]

\* a thread outside verify
IdleThread ==
    [pc |-> "idle", args |-> GoodArgs, server |-> DownServer,
     file_path |-> <<>>, curl |-> 0, filepath |-> <<>>, public_key |-> Absent,
     site |-> "none", rmret |-> "none", cceret |-> "none", addret |-> "none",
     fetches |-> 0, kvops |-> 0, unlinks |-> 0,
     ret |-> "none", payload |-> NoPayload,
     start |-> NoStore, startNow |-> 0, ofSign |-> FALSE, repeat |-> FALSE,
     overlap |-> FALSE]

NoPrev == [valid |-> FALSE, args |-> GoodArgs]

NoSign ==
    [valid |-> FALSE, input |-> NoJwt, fault |-> "none", ret |-> "none",
     payload |-> NoPayload, json |-> NoJwt, lookups |-> 0, refsBefore |-> 0,
     acquired |-> 0, released |-> 0]

\* no key store operation called on its own yet.  A record of the last
\* operation: the response metadata at hand, the second set_expiration
\* ran (0: not since the last remove), the operation and what it returned
\* (expired at second `at`, or path), whether nothing but reads followed
\* the last remove, and whether that remove found a complete fresh entry
NoKs ==
    [data |-> [cache_control |-> <<>>, expires |-> NoExpires],
     setAt |-> 0, last |-> "none", expired |-> FALSE, path |-> <<>>,
     removed |-> FALSE, had |-> FALSE, at |-> 0]

\* no decoded length computed yet
NoB64 == [signature |-> <<>>, length |-> 0, done |-> FALSE]

FirstProc == CHOOSE p \in Procs : \A q \in Procs : p <= q

\* AstDB contents an earlier run may have left behind
InitIndexes == {EmptyDb, IndexPut(EmptyDb, Url1, Sha1Hash(Url1))}

InitPaths == {<<>>, CachedPath}

InitExpirations ==
    {<<>>, <<"x">>} \cup {FormatExpiration(t) : t \in 1..MaxTime}

InitTree(path, expiration) ==
    LET t1 == IF path = <<>> THEN EmptyDb
              ELSE DbPut(EmptyDb, Sha1Hash(Url1), "path", path)
    IN  IF expiration = <<>> THEN t1
        ELSE DbPut(t1, Sha1Hash(Url1), "expiration", expiration)

Init ==
    /\ now = 1
    /\ th = [p \in Procs |-> IdleThread]
    /\ prev = NoPrev
    /\ sg = NoSign
    /\ certRefs = 1
    /\ tz = 0
    /\ ks = NoKs
    /\ b64 = NoB64
    /\ astdbIndex \in InitIndexes
    /\ \E path \in InitPaths, expiration \in InitExpirations :
          astdbTree = InitTree(path, expiration)
    /\ \E f \in FileStates :
          files = [q \in KeyPaths |-> IF q = CachedPath THEN f ELSE "absent"]

(***************************************************************************)
(* ast_stir_shaken_verify, one step per AstDB / filesystem / network       *)
(* operation                                                               *)
(***************************************************************************)
\* return NULL
ReturnNull(t) == [t EXCEPT !.pc = "done", !.ret = "NULL", !.payload = NoPayload]

\* call remove_public_key_from_astdb, to continue at `label`
CallRemove(t, label) == [t EXCEPT !.pc = "rm_get", !.rmret = label]

\* call add_public_key_to_astdb, to continue at `label`
CallAdd(t, label) == [t EXCEPT !.pc = "add_index", !.addret = label]

\* the clock
Tick ==
    /\ now < MaxTime
    /\ now' = now + 1
    /\ UNCHANGED <<astdbIndex, astdbTree, files, th, prev, sg, certRefs, tz, ks, b64>>

\* the locals of a thread that enters verify with arguments a, the server
\* being in state s for the time of the call
EnterVerify(a, s, ofSign) ==
    [IdleThread EXCEPT !.pc = "check_inputs", !.args = a, !.server = s,
                       !.start = Store, !.startNow = now, !.ofSign = ofSign,
                       !.repeat = prev.valid /\ prev.args = a]

\* a thread enters verify while no other is inside
VerifyCall(p) ==
    /\ p = FirstProc
    /\ \A q \in Procs : th[q].pc = "idle"
    /\ \E a \in VerifyArgs, s \in Servers :
          th' = [th EXCEPT ![p] = EnterVerify(a, s, FALSE)]
    /\ sg' = NoSign
    /\ UNCHANGED <<now, astdbIndex, astdbTree, files, prev, certRefs, tz, ks, b64>>

\* a thread enters verify with the fields of the payload sign returned
VerifySignedCall(p) ==
    /\ p = FirstProc
    /\ \A q \in Procs : th[q].pc = "idle"
    /\ sg.ret = "payload"
    /\ \E s \in Servers :
          th' = [th EXCEPT ![p] = EnterVerify(ArgsOfPayload(sg.payload), s, TRUE)]
    /\ UNCHANGED <<now, astdbIndex, astdbTree, files, prev, sg, certRefs, tz, ks, b64>>

\* lines 426-449
CheckInputs(p) ==
    /\ th[p].pc = "check_inputs"
    /\ th' = [th EXCEPT ![p] =
                IF VerifyInputMissing(@.args) THEN ReturnNull(@)
                ELSE [@ EXCEPT !.pc = "get_path"]]
    /\ UNCHANGED <<now, astdbIndex, astdbTree, files, prev, sg, certRefs, tz, ks, b64>>

\* lines 461-471
GetPath(p) ==
    /\ th[p].pc = "get_path"
    /\ LET path == GetPathToPublicKey(astdbTree, th[p].args.public_key_url)
           t == [th[p] EXCEPT !.file_path = path, !.kvops = @ + 1]
       IN  th' = [th EXCEPT ![p] =
                    IF StrlenZero(path) THEN CallRemove(t, "default_path")
                    ELSE [t EXCEPT !.pc = "is_expired"]]
    /\ UNCHANGED <<now, astdbIndex, astdbTree, files, prev, sg, certRefs, tz, ks, b64>>

\* remove_public_key_from_astdb, line 278
RemoveGet(p) ==
    /\ th[p].pc = "rm_get"
    /\ th' = [th EXCEPT ![p].filepath =
                DbGet(astdbTree, Sha1Hash(th[p].args.public_key_url), "path"),
              ![p].kvops = @ + 1, ![p].pc = "rm_file"]
    /\ UNCHANGED <<now, astdbIndex, astdbTree, files, prev, sg, certRefs, tz, ks, b64>>

\* line 281
RemoveFile(p) ==
    /\ th[p].pc = "rm_file"
    /\ files' = FsRemove(files, th[p].filepath)
    /\ th' = [th EXCEPT ![p].unlinks = @ + 1, ![p].pc = "rm_index"]
    /\ UNCHANGED <<now, astdbIndex, astdbTree, prev, sg, certRefs, tz, ks, b64>>

\* remove_public_key_from_astdb without its ast_db_del
RemoveIndexSkipped(p) ==
    /\ th[p].pc = "rm_index"
    /\ th' = [th EXCEPT ![p].kvops = @ + 1, ![p].pc = "rm_tree"]
    /\ UNCHANGED <<now, astdbIndex, astdbTree, files, prev, sg, certRefs, tz, ks, b64>>

\* line 283
RemoveIndex(p) ==
    /\ th[p].pc = "rm_index"
    /\ astdbIndex' = IndexDel(astdbIndex, th[p].args.public_key_url)
    /\ th' = [th EXCEPT ![p].kvops = @ + 1, ![p].pc = "rm_tree"]
    /\ UNCHANGED <<now, astdbTree, files, prev, sg, certRefs, tz, ks, b64>>

\* remove_public_key_from_astdb without its ast_db_deltree
RemoveTreeSkipped(p) ==
    /\ th[p].pc = "rm_tree"
    /\ LET t == [th[p] EXCEPT !.kvops = @ + 1]
       IN  th' = [th EXCEPT ![p] =
                    IF t.rmret = "return_null" THEN ReturnNull(t)
                    ELSE [t EXCEPT !.pc = t.rmret]]
    /\ UNCHANGED <<now, astdbIndex, astdbTree, files, prev, sg, certRefs, tz, ks, b64>>

\* line 284, and the return to the caller (lines 477, 504, 518, 526)
RemoveTree(p) ==
    /\ th[p].pc = "rm_tree"
    /\ astdbTree' = DbDelTree(astdbTree, Sha1Hash(th[p].args.public_key_url))
    /\ LET t == [th[p] EXCEPT !.kvops = @ + 1]
       IN  th' = [th EXCEPT ![p] =
                    IF t.rmret = "return_null" THEN ReturnNull(t)
                    ELSE [t EXCEPT !.pc = t.rmret]]
    /\ UNCHANGED <<now, astdbIndex, files, prev, sg, certRefs, tz, ks, b64>>

\* lines 474-483: the default path, then run_curl
DefaultPath(p) ==
    /\ th[p].pc = "default_path"
    /\ th' = [th EXCEPT ![p].file_path = DefaultFilePath(th[p].args.public_key_url),
                        ![p].site = "miss", ![p].pc = "curl"]
    /\ UNCHANGED <<now, astdbIndex, astdbTree, files, prev, sg, certRefs, tz, ks, b64>>

\* run_curl, line 371: curl_public_key.  A server that is down fails the
\* fetch.  Otherwise the body goes to the destination file; when that file
\* cannot be opened the fetcher may fail or report success with nothing
\* written.  A failed run_curl makes verify return NULL (lines 484, 402/505,
\* 402/519).
CurlPublicKey(p) ==
    /\ th[p].pc = "curl"
    /\ LET t == [th[p] EXCEPT !.fetches = @ + 1]
           dest == t.file_path
       IN  \/ /\ ~t.server.up \/ dest \notin DOMAIN files
              /\ th' = [th EXCEPT ![p] = ReturnNull(t)]
              /\ UNCHANGED files
           \/ /\ t.server.up
              /\ files' = FsWrite(files, dest, t.server.body)
              /\ th' = [th EXCEPT ![p] = [t EXCEPT !.pc = "set_expiration"]]
    /\ UNCHANGED <<now, astdbIndex, astdbTree, prev, sg, certRefs, tz, ks, b64>>

\* run_curl, line 377: set_public_key_expiration; then back in the caller:
\* verify sets curl and adds the entry (488-493), curl_and_check_expiration
\* goes on to its expiration check (405)
SetExpiration(p) ==
    /\ th[p].pc = "set_expiration"
    /\ astdbTree' = SetPublicKeyExpiration(astdbTree, th[p].args.public_key_url,
                                           th[p].server.data, now, tz)
    /\ LET t == [th[p] EXCEPT !.kvops = @ + 1]
       IN  th' = [th EXCEPT ![p] =
                    IF t.site = "miss"
                    THEN CallAdd([t EXCEPT !.curl = 1], "is_expired")
                    ELSE [t EXCEPT !.pc = "cce_is_expired"]]
    /\ UNCHANGED <<now, astdbIndex, files, prev, sg, certRefs, tz, ks, b64>>

\* add_public_key_to_astdb, line 261
AddIndex(p) ==
    /\ th[p].pc = "add_index"
    /\ astdbIndex' = IndexPut(astdbIndex, th[p].args.public_key_url,
                              Sha1Hash(th[p].args.public_key_url))
    /\ th' = [th EXCEPT ![p].kvops = @ + 1, ![p].pc = "add_path"]
    /\ UNCHANGED <<now, astdbTree, files, prev, sg, certRefs, tz, ks, b64>>

\* line 262, and the return to the caller
AddPath(p) ==
    /\ th[p].pc = "add_path"
    /\ astdbTree' = DbPut(astdbTree, Sha1Hash(th[p].args.public_key_url), "path",
                          th[p].file_path)
    /\ th' = [th EXCEPT ![p].kvops = @ + 1, ![p].pc = th[p].addret]
    /\ UNCHANGED <<now, astdbIndex, files, prev, sg, certRefs, tz, ks, b64>>

\* public_key_is_expired, called by verify (497-507) and by
\* curl_and_check_expiration (405-413)
IsExpired(p) ==
    /\ th[p].pc \in {"is_expired", "cce_is_expired"}
    /\ \E usec \in {0, 999999} :
          LET expired == PublicKeyIsExpired(astdbTree, th[p].args.public_key_url,
                                            [sec |-> now, usec |-> usec])
              t == [th[p] EXCEPT !.kvops = @ + 1]
          IN  th' = [th EXCEPT ![p] =
                IF t.pc = "is_expired"
                THEN IF expired THEN CallRemove(t, "cce_504")
                     ELSE [t EXCEPT !.pc = "read_key"]
                ELSE IF expired THEN ReturnNull(t)
                     ELSE CallAdd([t EXCEPT !.curl = 1], t.cceret)]
    /\ UNCHANGED <<now, astdbIndex, astdbTree, files, prev, sg, certRefs, tz, ks, b64>>

\* curl_and_check_expiration, lines 396-403, called at 504 and 518
CurlAndCheckExpiration(p) ==
    /\ th[p].pc \in {"cce_504", "cce_518"}
    /\ LET t == th[p]
       IN  th' = [th EXCEPT ![p] =
                IF CurlAlreadyRun(FALSE, t.curl) THEN ReturnNull(t)
                ELSE [t EXCEPT !.site = "cce", !.pc = "curl",
                               !.cceret = IF t.pc = "cce_504" THEN "read_key"
                                          ELSE "read_key_again"]]
    /\ UNCHANGED <<now, astdbIndex, astdbTree, files, prev, sg, certRefs, tz, ks, b64>>

\* stir_shaken_read_key at 511 and at 522
ReadKey(p) ==
    /\ th[p].pc \in {"read_key", "read_key_again"}
    /\ LET key == StirShakenReadKey(files, th[p].file_path)
           t == [th[p] EXCEPT !.public_key = key]
       IN  th' = [th EXCEPT ![p] =
                IF key # Absent THEN [t EXCEPT !.pc = "verify_signature"]
                ELSE IF t.pc = "read_key" THEN CallRemove(t, "cce_518")
                ELSE CallRemove(t, "return_null")]
    /\ UNCHANGED <<now, astdbIndex, astdbTree, files, prev, sg, certRefs, tz, ks, b64>>

\* the payload verify builds at 539-563
VerifiedPayload(a) ==
    [header |-> a.header.hdr, payload |-> a.payload.pl,
     signature |-> a.signature, algorithm |-> a.algorithm,
     public_key_url |-> a.public_key_url]

\* lines 530-563
VerifySignature(p) ==
    /\ th[p].pc = "verify_signature"
    /\ LET a == th[p].args
       IN  th' = [th EXCEPT ![p] =
                IF ~StirShakenVerifySignature(a.payload, a.signature, @.public_key)
                THEN ReturnNull(@)
                ELSE IF ~JsonLoads(a.header) \/ ~JsonLoads(a.payload)
                THEN ReturnNull(@)
                ELSE [@ EXCEPT !.pc = "done", !.ret = "payload",
                               !.payload = VerifiedPayload(a)]]
    /\ UNCHANGED <<now, astdbIndex, astdbTree, files, prev, sg, certRefs, tz, ks, b64>>

\* verify has returned: the thread is outside again
VerifyReturn(p) ==
    /\ th[p].pc = "done"
    /\ prev' = IF th[p].ret = "payload"
               THEN [valid |-> TRUE, args |-> th[p].args]
               ELSE NoPrev
    /\ th' = [th EXCEPT ![p] = IdleThread]
    /\ UNCHANGED <<now, astdbIndex, astdbTree, files, sg, certRefs, tz, ks, b64>>

\* ast_stir_shaken_sign(json), `fault` being the step that fails
SignApply(json, fault, usec) ==
    LET r == AstStirShakenSign(json, fault, [sec |-> now, usec |-> usec])
    IN  /\ sg' = [valid |-> TRUE, input |-> json, fault |-> fault,
                  ret |-> r.ret, payload |-> r.payload, json |-> r.json,
                  lookups |-> r.lookups, refsBefore |-> certRefs,
                  acquired |-> r.acquired, released |-> r.released]
        /\ certRefs' = certRefs + r.acquired - r.released

\* a call of sign while no thread is inside verify
Sign ==
    /\ \A q \in Procs : th[q].pc = "idle"
    /\ \E json \in SignInputs, fault \in SignFaults, usec \in {0, 999999} :
          SignApply(json, fault, usec)
    /\ prev' = NoPrev
    /\ UNCHANGED <<now, astdbIndex, astdbTree, files, th, tz, ks, b64>>

\* the call of sign on the input the behaviour started with
SignDrawn ==
    /\ ~sg.valid
    /\ \E usec \in {0, 999999} : SignApply(sg.input, sg.fault, usec)
    /\ UNCHANGED <<now, astdbIndex, astdbTree, files, th, prev, tz, ks, b64>>

Next ==
    \/ Tick
    \/ Sign
    \/ \E p \in Procs : VerifyCall(p)
    \/ \E p \in Procs : VerifySignedCall(p)
    \/ \E p \in Procs : CheckInputs(p)
    \/ \E p \in Procs : GetPath(p)
    \/ \E p \in Procs : RemoveGet(p)
    \/ \E p \in Procs : RemoveFile(p)
    \/ \E p \in Procs : RemoveIndex(p)
    \/ \E p \in Procs : RemoveTree(p)
    \/ \E p \in Procs : DefaultPath(p)
    \/ \E p \in Procs : CurlPublicKey(p)
    \/ \E p \in Procs : SetExpiration(p)
    \/ \E p \in Procs : AddIndex(p)
    \/ \E p \in Procs : AddPath(p)
    \/ \E p \in Procs : IsExpired(p)
    \/ \E p \in Procs : CurlAndCheckExpiration(p)
    \/ \E p \in Procs : ReadKey(p)
    \/ \E p \in Procs : VerifySignature(p)
    \/ \E p \in Procs : VerifyReturn(p)

Spec == Init /\ [][Next]_vars

\* sign alone, once, on every shape of input
InitSign ==
    /\ now = 1
    /\ th = [p \in Procs |-> IdleThread]
    /\ prev = NoPrev
    /\ certRefs = 1
    /\ tz = 0
    /\ ks = NoKs
    /\ b64 = NoB64
    /\ \E json \in AllJwts, fault \in SignFaults :
          sg = [NoSign EXCEPT !.input = json, !.fault = fault]
    /\ astdbIndex = EmptyDb
    /\ astdbTree = EmptyDb
    /\ files = [q \in KeyPaths |-> "absent"]

NextSign == Tick \/ SignDrawn

SpecSign == InitSign /\ [][NextSign]_vars

(***************************************************************************)
(* Concurrent calls of ast_stir_shaken_verify for one url                  *)
(***************************************************************************)
\* the servers of the concurrent calls: down, or answering with the key
\* and either no cache metadata or a max-age
ConcServers ==
    {DownServer}
    \cup {x \in [up : {TRUE}, body : {"pem"}, data : ServerData] :
            ~x.data.expires.present}

\* a thread enters verify for the url, whatever the other threads are
\* doing (the snapshot of the store at entry is not kept; overlap: another
\* thread was inside verify at that moment)
ConcurrentCall(p) ==
    /\ th[p].pc = "idle"
    /\ \E s \in ConcServers :
          th' = [th EXCEPT ![p] = [EnterVerify(GoodArgs, s, FALSE) EXCEPT
                                     !.start = NoStore, !.startNow = 0,
                                     !.overlap = \E q \in Procs \ {p} :
                                                   th[q].pc \notin {"idle", "done"}]]
    /\ UNCHANGED <<now, astdbIndex, astdbTree, files, prev, sg, certRefs, tz, ks, b64>>

\* the AstDB as calls that ran to their end leave it: where the index
\* record of the url is, its path record is too
InitConc ==
    /\ now = 1
    /\ th = [p \in Procs |-> IdleThread]
    /\ prev = NoPrev
    /\ sg = NoSign
    /\ certRefs = 1
    /\ tz = 0
    /\ ks = NoKs
    /\ b64 = NoB64
    /\ astdbIndex \in InitIndexes
    /\ \E path \in InitPaths, expiration \in {<<>>, FormatExpiration(2)} :
          astdbTree = InitTree(path, expiration)
    /\ Url1 \in DOMAIN astdbIndex => <<Sha1Hash(Url1), "path">> \in DOMAIN astdbTree
    /\ \E f \in {"pem", "corrupt"} :
          files = [q \in KeyPaths |-> IF q = CachedPath THEN f ELSE "absent"]

NextConc ==
    \/ Tick
    \/ \E p \in Procs : ConcurrentCall(p)
    \/ \E p \in Procs : CheckInputs(p)
    \/ \E p \in Procs : GetPath(p)
    \/ \E p \in Procs : RemoveGet(p)
    \/ \E p \in Procs : RemoveFile(p)
    \/ \E p \in Procs : RemoveIndex(p)
    \/ \E p \in Procs : RemoveTree(p)
    \/ \E p \in Procs : DefaultPath(p)
    \/ \E p \in Procs : CurlPublicKey(p)
    \/ \E p \in Procs : SetExpiration(p)
    \/ \E p \in Procs : AddIndex(p)
    \/ \E p \in Procs : AddPath(p)
    \/ \E p \in Procs : IsExpired(p)
    \/ \E p \in Procs : CurlAndCheckExpiration(p)
    \/ \E p \in Procs : ReadKey(p)
    \/ \E p \in Procs : VerifySignature(p)
    \/ \E p \in Procs : VerifyReturn(p)

SpecConc == InitConc /\ [][NextConc]_vars

(***************************************************************************)
(* The key store operations, each called on its own                        *)
(***************************************************************************)
\* the local time zones tried, as offsets east of UTC
TzOffsets == {-1, 0, 1}

\* the values a max-age or s-maxage directive is given
AgeDigits == {DigitChars[n + 1] : n \in 0..MaxAge}

\* the Cache-Control header values tried, as sequences of lexemes
CacheControls ==
    {<<>>, <<"no-cache">>}
    \cup {<<"max-age", "=", d>> : d \in AgeDigits}
    \cup {<<"max-age", "=", d, ",", "public">> : d \in AgeDigits}
    \cup {<<"public", ",", "max-age", "=", d>> : d \in AgeDigits}
    \cup {<<"s-maxage", "=", d>> : d \in AgeDigits}
    \cup {<<"s-maxage", "=", a, ",", "max-age", "=", b>> :
             a \in AgeDigits, b \in AgeDigits}
    \cup {<<"max-age", "=", b, ",", "s-maxage", "=", a>> :
             a \in AgeDigits, b \in AgeDigits}

\* the response metadata tried: every Cache-Control value, with and without
\* an Expires header
CurlCbData ==
    [cache_control : CacheControls,
     expires : {NoExpires, [present |-> TRUE, epoch |-> MaxTime]}]

\* set_public_key_expiration(url, data)
KsSetExpiration ==
    /\ ks.setAt = 0
    /\ astdbTree' = SetPublicKeyExpiration(astdbTree, Url1, ks.data, now, tz)
    /\ ks' = [NoKs EXCEPT !.data = ks.data, !.setAt = now, !.last = "set"]
    /\ UNCHANGED <<now, astdbIndex, files, th, prev, sg, certRefs, tz, b64>>

\* add_public_key_to_astdb(url, filepath)
KsAdd ==
    /\ ks.last # "add"
    /\ astdbIndex' = IndexPut(astdbIndex, Url1, Sha1Hash(Url1))
    /\ astdbTree' = DbPut(astdbTree, Sha1Hash(Url1), "path", CachedPath)
    /\ ks' = [NoKs EXCEPT !.data = ks.data, !.setAt = ks.setAt, !.last = "add"]
    /\ UNCHANGED <<now, files, th, prev, sg, certRefs, tz, b64>>

\* remove_public_key_from_astdb(url) that leaves the families of the hash
KsRemoveIndexOnly ==
    /\ files' = FsRemove(files, DbGet(astdbTree, Sha1Hash(Url1), "path"))
    /\ astdbIndex' = IndexDel(astdbIndex, Url1)
    /\ ks' = [NoKs EXCEPT !.data = ks.data, !.last = "remove", !.removed = TRUE,
                        !.had = Url1 \in DOMAIN astdbIndex
                                /\ DbGet(astdbTree, Sha1Hash(Url1), "path") # <<>>
                                /\ ~PublicKeyIsExpired(astdbTree, Url1,
                                                       [sec |-> now, usec |-> 0])]
    /\ UNCHANGED <<now, astdbTree, th, prev, sg, certRefs, tz, b64>>

\* remove_public_key_from_astdb(url), lines 270-285
KsRemove ==
    /\ files' = FsRemove(files, DbGet(astdbTree, Sha1Hash(Url1), "path"))
    /\ astdbIndex' = IndexDel(astdbIndex, Url1)
    /\ astdbTree' = DbDelTree(astdbTree, Sha1Hash(Url1))
    /\ ks' = [NoKs EXCEPT !.data = ks.data, !.last = "remove", !.removed = TRUE,
                        !.had = Url1 \in DOMAIN astdbIndex
                                /\ DbGet(astdbTree, Sha1Hash(Url1), "path") # <<>>
                                /\ ~PublicKeyIsExpired(astdbTree, Url1,
                                                       [sec |-> now, usec |-> 0])]
    /\ UNCHANGED <<now, th, prev, sg, certRefs, tz, b64>>

\* get_path_to_public_key(url)
KsLookup ==
    /\ ks' = [ks EXCEPT !.path = GetPathToPublicKey(astdbTree, Url1),
                        !.last = "lookup", !.expired = FALSE, !.at = 0]
    /\ UNCHANGED <<now, astdbIndex, astdbTree, files, th, prev, sg, certRefs, tz, b64>>

\* public_key_is_expired(url)
KsIsExpired ==
    /\ \E usec \in {0, 999999} :
          ks' = [ks EXCEPT !.expired = PublicKeyIsExpired(astdbTree, Url1,
                                          [sec |-> now, usec |-> usec]),
                          !.last = "is_expired", !.at = now, !.path = <<>>]
    /\ UNCHANGED <<now, astdbIndex, astdbTree, files, th, prev, sg, certRefs, tz, b64>>

\* the key store as an earlier run left it, a response to be recorded, and
\* the host's time zone
InitKs ==
    /\ now = 1
    /\ th = [p \in Procs |-> IdleThread]
    /\ prev = NoPrev
    /\ sg = NoSign
    /\ certRefs = 1
    /\ b64 = NoB64
    /\ tz \in TzOffsets
    /\ \E data \in CurlCbData : ks = [NoKs EXCEPT !.data = data]
    /\ astdbIndex \in InitIndexes
    /\ \E path \in InitPaths, expiration \in InitExpirations :
          astdbTree = InitTree(path, expiration)
    /\ files = [q \in KeyPaths |-> IF q = CachedPath THEN "pem" ELSE "absent"]

NextKs ==
    \/ Tick
    \/ KsSetExpiration
    \/ KsAdd
    \/ KsRemove
    \/ KsLookup
    \/ KsIsExpired

SpecKs == InitKs /\ [][NextKs]_vars

(***************************************************************************)
(* stir_shaken_verify_signature: the length of the decoded signature       *)
(***************************************************************************)
\* the longest signature string tried
MaxSigLen == 8

\* size_t arithmetic wraps; the model keeps the wrap, at 2^30 (the checker's
\* integers are narrower than the 64 bits of size_t)
SizeTModulus == 2^30

SizeT(x) == x % SizeTModulus

\* the characters of the strings tried: a base64 digit and the pad
SigChars == {"A", "="}

RECURSIVE StringsOfLen(_)
StringsOfLen(n) ==
    IF n = 0 THEN {<<>>}
    ELSE {<<c>> \o t : c \in SigChars, t \in StringsOfLen(n - 1)}

SigStrings == UNION {StringsOfLen(n) : n \in 0..MaxSigLen}

\* lines 326-331, looking at the last character only
SignaturePaddingLastOnly(signature) ==
    LET signature_length == Len(signature)
    IN  IF signature_length > 2 /\ signature[signature_length] = "=" THEN 1 ELSE 0

\* lines 326-331: padding
SignaturePadding(signature) ==
    LET signature_length == Len(signature)
    IN  IF signature_length > 2 /\ signature[signature_length] = "="
        THEN IF signature[signature_length - 1] = "=" THEN 2 ELSE 1
        ELSE 0

\* line 333: decoded_signature_length
DecodedSignatureLength(signature) ==
    SizeT(SizeT((Len(signature) \div 4) * 3) - SignaturePadding(signature))

\* the computation of lines 325-333 on the string the behaviour started with
DecodeLength ==
    /\ ~b64.done
    /\ b64' = [b64 EXCEPT !.length = DecodedSignatureLength(b64.signature),
                          !.done = TRUE]
    /\ UNCHANGED <<now, astdbIndex, astdbTree, files, th, prev, sg, certRefs, tz, ks>>

InitB64 ==
    /\ now = 1
    /\ th = [p \in Procs |-> IdleThread]
    /\ prev = NoPrev
    /\ sg = NoSign
    /\ certRefs = 1
    /\ tz = 0
    /\ ks = NoKs
    /\ astdbIndex = EmptyDb
    /\ astdbTree = EmptyDb
    /\ files = [q \in KeyPaths |-> "absent"]
    /\ \E s \in SigStrings : b64 = [NoB64 EXCEPT !.signature = s]

NextB64 == DecodeLength

SpecB64 == InitB64 /\ [][NextB64]_vars

(***************************************************************************)
(* Vocabulary of the properties                                            *)
(***************************************************************************)
\* thread p has come to the end of verify and is about to return
Returning(p) == th[p].pc = "done"

\* one of the five arguments is NULL or ""
SomeArgEmpty(a) ==
    \/ a.header.k \in {"null", "empty"}
    \/ a.payload.k \in {"null", "empty"}
    \/ a.signature.k \in {"null", "empty"}
    \/ a.algorithm \in {Absent, ""}
    \/ a.public_key_url \in {NullStr, <<>>}

\* the expiration recorded for url in tree is the epoch second sec
ExpirationIs(tree, url, sec) ==
    /\ <<Sha1Hash(url), "expiration">> \in DOMAIN tree
    /\ StrToULong(tree[<<Sha1Hash(url), "expiration">>]).ok
    /\ StrToULong(tree[<<Sha1Hash(url), "expiration">>]).val = sec

\* tree records a path for url, and an expiration before / after second sec
CachedExpiredAt(tree, url, sec) ==
    /\ DbGet(tree, Sha1Hash(url), "path") # <<>>
    /\ \E e \in 0..(sec - 1) : ExpirationIs(tree, url, e)

CachedFreshAt(tree, url, sec) ==
    /\ DbGet(tree, Sha1Hash(url), "path") # <<>>
    /\ \E e \in (sec + 1)..(MaxTime + MaxAge) : ExpirationIs(tree, url, e)

\* the server answers with the signer's key and Cache-Control: max-age=MaxAge
FreshKeyServer(s) ==
    /\ s.up
    /\ s.body = "pem"
    /\ s.data.cache_control = <<"max-age", "=", DigitChars[MaxAge + 1]>>

\* the number of '=' characters at the end of s
RECURSIVE TrailingEquals(_)
TrailingEquals(s) ==
    IF Len(s) > 0 /\ s[Len(s)] = "=" THEN 1 + TrailingEquals(SubSeq(s, 1, Len(s) - 1))
    ELSE 0

\* the values N of the directives name=N in a Cache-Control value
DirectiveValues(value, name) ==
    {DigitVal(value[i + 2]) :
        i \in {j \in 1..(Len(value) - 2) :
                 /\ value[j] = name
                 /\ value[j + 1] = "="
                 /\ IsDigit(value[j + 2])
                 /\ (j + 2 = Len(value) \/ value[j + 3] = ",")}}

\* thread p found no path for the url and has the fetcher's answer
FetchedOnMiss(p) == th[p].site = "miss" /\ th[p].addret = "is_expired"

\* thread p called the fetcher and the fetcher failed
FetchFailed(p) ==
    /\ Returning(p)
    /\ th[p].fetches = 1
    /\ th[p].addret = "none"

\* the server answers with no Cache-Control and no Expires
NoFreshnessServer(s) ==
    /\ s.up
    /\ s.data.cache_control = <<>>
    /\ ~s.data.expires.present

\* no call of verify is in progress
Quiescent == \A p \in Procs : th[p].pc \in {"idle", "done"}

\* the AstDB holds no record of url: no index, no path, no expiration
NoRecord(url) ==
    /\ url \notin DOMAIN astdbIndex
    /\ <<Sha1Hash(url), "path">> \notin DOMAIN astdbTree
    /\ <<Sha1Hash(url), "expiration">> \notin DOMAIN astdbTree

\* thread p came to the signature check and the check failed
SignatureCheckFailed(p) ==
    /\ Returning(p)
    /\ th[p].public_key # Absent
    /\ ~StirShakenVerifySignature(th[p].args.payload, th[p].args.signature,
                                  th[p].public_key)

\* the AstDB holds the three records of url, the expiration being sec
CompleteEntry(url, sec) ==
    /\ url \in DOMAIN astdbIndex
    /\ <<Sha1Hash(url), "path">> \in DOMAIN astdbTree
    /\ ExpirationIs(astdbTree, url, sec)

(***************************************************************************)
(* C1..C10                                                                 *)
(***************************************************************************)
\* C1: a verify that finds a cached entry whose expiration is already past,
\* with a server that answers with the key and max-age > 0 and a matching
\* signature, returns a payload after exactly one fetch and leaves a
\* complete entry with the new expiration.  (Stated as claimed; the code
\* does not do this.)
C1_ExpiredEntryIsRefetched ==
    \A p \in Procs :
        ( /\ Returning(p)
          /\ th[p].args = GoodArgs
          /\ CachedExpiredAt(th[p].start.tree, Url1, th[p].startNow)
          /\ FreshKeyServer(th[p].server) )
        => /\ th[p].ret = "payload"
           /\ th[p].fetches = 1
           /\ \E T \in th[p].startNow..now : CompleteEntry(Url1, T + MaxAge)

\* C2: a verify that finds an unexpired cached entry whose key file cannot
\* be read removes the entry, fetches once, reads again and, the server
\* answering with a fresh readable key and the signature matching, returns
\* a payload and leaves a complete entry.  (Stated as claimed; the code
\* does not do this.)
C2_UnreadableKeyIsRefetched ==
    \A p \in Procs :
        ( /\ Returning(p)
          /\ th[p].args = GoodArgs
          /\ CachedFreshAt(th[p].start.tree, Url1, now)
          /\ th[p].start.files[CachedPath] # "pem"
          /\ DbGet(th[p].start.tree, Sha1Hash(Url1), "path") = CachedPath
          /\ FreshKeyServer(th[p].server) )
        => /\ th[p].ret = "payload"
           /\ th[p].fetches = 1
           /\ \E T \in th[p].startNow..now : CompleteEntry(Url1, T + MaxAge)

\* C3: in a verify call the fetcher is invoked at most once, whatever the
\* cache held and whatever the fetch, the freshness check, the key read
\* and the signature check come to.
C3_AtMostOneFetch == \A p \in Procs : th[p].fetches <= 1

\* C3's case: a call that has fetched comes to a second download site
\* (the key it fetched could not be read) and returns
C3_Witness ==
    \E p \in Procs :
        Returning(p) /\ th[p].fetches = 1 /\ th[p].rmret = "cce_518"

\* C4: with one of the five arguments empty, verify returns NULL having
\* made no AstDB operation, no fetch and no file removal, and the AstDB
\* and the key files are as they were when it was called.
C4_EmptyInputNoEffect ==
    \A p \in Procs :
        (th[p].pc \in {"get_path", "done"} /\ SomeArgEmpty(th[p].args))
        => /\ th[p].pc = "done"
           /\ th[p].ret = "NULL"
           /\ th[p].kvops = 0 /\ th[p].fetches = 0 /\ th[p].unlinks = 0
           /\ Store = th[p].start

\* C4's case: a call with an empty header returns while the AstDB holds
\* an entry
C4_Witness ==
    \E p \in Procs :
        /\ Returning(p)
        /\ th[p].args.header = EmptyText
        /\ Url1 \in DOMAIN astdbIndex
        /\ DbGet(astdbTree, Sha1Hash(Url1), "path") = CachedPath

\* C5: a verify on a cache miss, with a server that answers at time T with
\* the key and max-age=N, N > 0, and a matching signature, returns a
\* payload and leaves the index, path and expiration records, the
\* expiration being T+N.  (Stated as claimed; the code does not do this.)
C5_MissIsFilled ==
    \A p \in Procs :
        ( /\ Returning(p)
          /\ th[p].args = GoodArgs
          /\ DbGet(th[p].start.tree, Sha1Hash(Url1), "path") = <<>>
          /\ FreshKeyServer(th[p].server) )
        => /\ th[p].ret = "payload"
           /\ \E T \in th[p].startNow..now : CompleteEntry(Url1, T + MaxAge)

\* C6: a verify that repeats, with the same five arguments, the previous
\* call, which returned a payload, and that runs before the stored
\* expiration, returns a payload, fetches nothing and leaves the AstDB as
\* it found it.
C6_WarmRepeat ==
    \A p \in Procs :
        ( /\ Returning(p)
          /\ th[p].repeat
          /\ CachedFreshAt(th[p].start.tree, th[p].args.public_key_url, now) )
        => /\ th[p].ret = "payload"
           /\ th[p].fetches = 0
           /\ astdbIndex = th[p].start.index
           /\ astdbTree = th[p].start.tree

\* C6's case: the repeated call returns, later than the first call began
C6_Witness ==
    \E p \in Procs :
        /\ Returning(p)
        /\ th[p].repeat
        /\ th[p].startNow > 1
        /\ CachedFreshAt(th[p].start.tree, th[p].args.public_key_url, now)

\* C7: every payload returned by sign or by verify has a header, a
\* payload, a non-empty signature, a non-empty algorithm and a non-empty
\* public_key_url.  (Stated as claimed; sign does not do this.)
AllFieldsSet(payload) ==
    /\ payload.header # NoHdr
    /\ payload.payload # NoPl
    /\ payload.signature.k = "b64"
    /\ payload.algorithm \notin {Absent, ""}
    /\ payload.public_key_url \notin {NullStr, <<>>}

C7_ReturnedPayloadComplete ==
    /\ sg.ret = "payload" => AllFieldsSet(sg.payload)
    /\ \A p \in Procs : th[p].ret = "payload" => AllFieldsSet(th[p].payload)

\* C8: the payload sign returns for a well-formed input whose caller has a
\* certificate has header.x5u = the certificate's public_key_url,
\* payload.attest = "B", payload.origid and payload.iat set, and a
\* non-empty base64 signature.  (Stated as claimed; sign does not do this.)
C8_SignedPayloadFields ==
    sg.ret = "payload"
    => /\ sg.payload.header.x5u
            = CertificateGetByCallerIdNumber(sg.input.payload.tn).public_key_url
       /\ sg.payload.payload.attest = "B"
       /\ sg.payload.payload.origid # Absent
       /\ sg.payload.payload.iat # -1
       /\ sg.payload.signature.k = "b64"

\* C9: verify, called with the fields of the payload sign returned while
\* the server answers with the matching public key, returns a payload
\* whose header is the header of sign's input and whose payload.orig.tn is
\* that of sign's input.  (Stated as claimed; the code does not do this.)
C9_VerifyOfSignRoundTrips ==
    \A p \in Procs :
        (Returning(p) /\ th[p].ofSign /\ FreshKeyServer(th[p].server))
        => /\ th[p].ret = "payload"
           /\ th[p].payload.header = sg.input.header
           /\ th[p].payload.payload.tn = sg.input.payload.tn

\* C10: sign returns NULL, without a certificate lookup and with the
\* caller's JSON as it was, when the JSON has no header, no payload, no
\* header.ppt / typ / alg, no non-empty payload.orig.tn, or a ppt, typ or
\* alg other than "shaken", "passport", "ES256".
OutOfProfile(json) ==
    \/ ~json.hasHeader
    \/ ~json.hasPayload
    \/ json.header.ppt # "shaken"
    \/ json.header.typ # "passport"
    \/ json.header.alg # "ES256"
    \/ json.payload.tn \in {Absent, ""}

C10_OutOfProfileRefused ==
    (sg.valid /\ OutOfProfile(sg.input))
    => /\ sg.ret = "NULL"
       /\ sg.lookups = 0
       /\ sg.json = sg.input

\* C10's case: sign has run on a JSON whose only fault is typ, for a
\* caller that has a certificate
C10_Witness ==
    /\ sg.valid
    /\ sg.input.header.typ = "jwt"
    /\ sg.input.header.ppt = "shaken"
    /\ sg.input.header.alg = "ES256"
    /\ sg.input.payload.tn = "+1555"

(***************************************************************************)
(* C11..C20                                                                *)
(***************************************************************************)
\* C11: when verify comes to the signature check and the signature does
\* not match, the AstDB holds no record of url (index, path, expiration)
\* when verify returns.  (Stated as claimed; the code does not do this.)
C11_SignatureFailureRemovesEntry ==
    \A p \in Procs :
        SignatureCheckFailed(p)
        => th[p].ret = "NULL" /\ NoRecord(th[p].args.public_key_url)

\* C12: a verify that finds a cached entry whose key file cannot be read,
\* and still cannot be read after whatever refetch the call makes, returns
\* NULL and leaves no record of url: no index, no path, no expiration.
C12_UnreadableKeyEntryPurged ==
    \A p \in Procs :
        ( /\ Returning(p)
          /\ ~VerifyInputMissing(th[p].args)
          /\ DbGet(th[p].start.tree, Sha1Hash(th[p].args.public_key_url), "path")
                = CachedPath
          /\ th[p].start.files[CachedPath] # "pem"
          /\ files[CachedPath] # "pem" )
        => th[p].ret = "NULL" /\ NoRecord(th[p].args.public_key_url)

\* C12's case: the entry was complete and not expired, the read of the key
\* file failed, and the call has returned by way of the line-518 site
C12_Witness ==
    \E p \in Procs :
        /\ Returning(p)
        /\ CachedFreshAt(th[p].start.tree, Url1, now)
        /\ Url1 \in DOMAIN th[p].start.index
        /\ th[p].start.files[CachedPath] = "corrupt"
        /\ th[p].rmret = "cce_518"
        /\ th[p].fetches = 0

\* C18: the algorithm of every payload that sign or verify returns is
\* "ES256".  (Stated as claimed; the code does not do this.)
C18_ReturnedAlgorithmIsES256 ==
    /\ sg.ret = "payload"
          => sg.payload.algorithm = STIR_SHAKEN_ENCRYPTION_ALGORITHM
    /\ \A p \in Procs :
          th[p].ret = "payload"
          => th[p].payload.algorithm = STIR_SHAKEN_ENCRYPTION_ALGORITHM

\* C19: when sign has obtained the certificate, then on return, whether it
\* succeeded or failed at x5u, attest, origid, iat, the dump or the
\* signing, it has released the reference once and the certificate's
\* reference count is what it was before the call.
C19_CertificateReleasedOnce ==
    (sg.valid /\ sg.acquired = 1)
    => sg.released = 1 /\ certRefs = sg.refsBefore

\* C19's case: the certificate was found and the signing itself failed
C19_Witness ==
    /\ sg.valid
    /\ sg.acquired = 1
    /\ sg.fault = "sign"
    /\ sg.ret = "NULL"

\* C20: for a signature string whose length L is a multiple of 4, at least
\* 4, and that ends in p '=' characters, p in 0..2, the decoded length
\* verify computes is (L/4)*3 - p.
C20_DecodedLength ==
    LET L == Len(b64.signature)
        p == TrailingEquals(b64.signature)
    IN  (b64.done /\ L >= 4 /\ L % 4 = 0 /\ p \in 0..2)
        => b64.length = (L \div 4) * 3 - p

\* C20's case: a string of 8 characters ending in two pads
C20_Witness ==
    /\ b64.done
    /\ Len(b64.signature) = 8
    /\ TrailingEquals(b64.signature) = 2

\* C14: once set_expiration has run at second T on a Cache-Control that
\* has max-age=N and no s-maxage, is_expired answers FALSE at every second
\* before T+N and TRUE from T+N on, as long as the entry is not removed.
\* (Stated as claimed; the code does not do this.)
C14_MaxAgeExpiry ==
    \A N \in DirectiveValues(ks.data.cache_control, "max-age") :
        ( /\ ks.setAt > 0
          /\ ks.last = "is_expired"
          /\ DirectiveValues(ks.data.cache_control, "s-maxage") = {} )
        => ks.expired = (ks.at >= ks.setAt + N)

\* C15: on a Cache-Control that has both s-maxage=A and max-age=B, in
\* either order, set_expiration stores now + A, never now + B.  (Stated as
\* claimed; the code does not do this.)
C15_SMaxAgeWins ==
    LET sAges == DirectiveValues(ks.data.cache_control, "s-maxage")
        ages == DirectiveValues(ks.data.cache_control, "max-age")
    IN  (ks.setAt > 0 /\ ages # {})
        => \A A \in sAges : ExpirationIs(astdbTree, Url1, ks.setAt + A)

\* C16: on a response whose Cache-Control has neither s-maxage=N nor
\* max-age=N (there being no Cache-Control, or one with other directives
\* only) and that has an Expires header, set_expiration stores the epoch
\* value of the Expires date.  (Stated as claimed; the code does not do
\* this.)
C16_ExpiresHeaderUsed ==
    ( /\ ks.setAt > 0
      /\ DirectiveValues(ks.data.cache_control, "s-maxage") = {}
      /\ DirectiveValues(ks.data.cache_control, "max-age") = {}
      /\ ks.data.expires.present )
    => ExpirationIs(astdbTree, Url1, ks.data.expires.epoch)

\* C17: right after remove(url), lookup(url) gives the empty path and
\* is_expired(url) gives TRUE, whatever the AstDB held for url before.
C17_RemovedEntryIsGone ==
    /\ (ks.removed /\ ks.last = "lookup") => ks.path = <<>>
    /\ (ks.removed /\ ks.last = "is_expired") => ks.expired

\* C17's case: the entry removed was complete and not expired, and
\* is_expired was asked after the remove
C17_Witness ==
    /\ ks.removed
    /\ ks.had
    /\ ks.last = "is_expired"

\* C13: whatever the interleaving of concurrent verify calls for the url,
\* each AstDB operation being one step, whenever no call is in progress
\* the index record of the url is only there together with its path
\* record.
C13_IndexImpliesPath ==
    Quiescent
    => (Url1 \in DOMAIN astdbIndex
          => <<Sha1Hash(Url1), "path">> \in DOMAIN astdbTree)

\* C13's case: a call that began while another was inside verify has put
\* the index and path records of the url, and no call is in progress
C13_Witness ==
    /\ Quiescent
    /\ \E p \in Procs :
          /\ th[p].overlap
          /\ th[p].pc = "done"
          /\ th[p].addret = "is_expired"

(***************************************************************************)
(* C21..C25                                                                *)
(***************************************************************************)
\* C21: on a cache miss the path verify hands to the fetcher, and records
\* with the url, is DATA_DIR/keys/stir_shaken/basename(url), which is not
\* empty, and a lookup of the url after the entry was added gives that
\* path.  (Stated as claimed; the code does not do this.)
C21_DefaultPathIsFullPath ==
    \A p \in Procs :
        /\ (th[p].site = "miss" /\ th[p].pc = "curl")
              => /\ th[p].file_path = FullDefaultPath(th[p].args.public_key_url)
                 /\ th[p].file_path # <<>>
        /\ (FetchedOnMiss(p) /\ th[p].pc = "is_expired")
              => /\ GetPathToPublicKey(astdbTree, th[p].args.public_key_url)
                       = FullDefaultPath(th[p].args.public_key_url)
                 /\ GetPathToPublicKey(astdbTree, th[p].args.public_key_url) # <<>>

\* C22: a verify call that found no path for the url, and whose fetch
\* succeeded from a server giving no Cache-Control and no Expires, stores
\* the time of the fetch as the expiration, finds the key expired in that
\* same call, fails having fetched once, and leaves no record for the url.
C22_NoFreshnessFailsAndCleans ==
    \A p \in Procs :
        (FetchedOnMiss(p) /\ NoFreshnessServer(th[p].server)) =>
            /\ th[p].fetches = 1
            /\ (th[p].pc = "add_index") =>
                  \E T \in th[p].startNow .. now :
                      ExpirationIs(astdbTree, th[p].args.public_key_url, T)
            /\ (th[p].pc \notin {"add_index", "add_path", "is_expired"}) =>
                  th[p].rmret = "cce_504"
            /\ Returning(p) =>
                  /\ th[p].ret = "NULL"
                  /\ NoRecord(th[p].args.public_key_url)

\* a call on a miss, answered without freshness information, has returned
C22_Witness ==
    \E p \in Procs :
        /\ FetchedOnMiss(p)
        /\ NoFreshnessServer(th[p].server)
        /\ Returning(p)
        /\ th[p].rmret = "cce_504"
        /\ th[p].fetches = 1

\* C23: a verify call whose fetch fails returns NULL, and on its return the
\* AstDB holds no index, path or expiration record for the url.
C23_FailedFetchLeavesNoRecord ==
    \A p \in Procs :
        FetchFailed(p) =>
            /\ th[p].ret = "NULL"
            /\ th[p].site = "miss"
            /\ NoRecord(th[p].args.public_key_url)

\* a call that began with an index record of the url, but no path, has had
\* its fetch fail
C23_Witness ==
    \E p \in Procs :
        /\ FetchFailed(p)
        /\ ~th[p].server.up
        /\ th[p].args.public_key_url \in DOMAIN th[p].start.index

\* C24: when two verify calls for the url overlap, both having found no
\* path for it, each with its fetch answered by a server that gives a PEM
\* key and max-age > 0, and with a matching signature, both return a payload and the AstDB ends with the
\* index, path and expiration records of the url and the key file in place.
\* (Stated as claimed; the code does not do this.)
C24_ConcurrentColdVerifySucceeds ==
    ( /\ \A p \in Procs :
            /\ Returning(p)
            /\ FetchedOnMiss(p)
            /\ FreshKeyServer(th[p].server)
      /\ \E p \in Procs : th[p].overlap )
    =>
    ( /\ \A p \in Procs : th[p].ret = "payload"
      /\ \E T \in 0 .. (MaxTime + MaxAge) : CompleteEntry(Url1, T)
      /\ GetPathToPublicKey(astdbTree, Url1) \in DOMAIN files
      /\ files[GetPathToPublicKey(astdbTree, Url1)] = "pem" )

\* C25: the decoded length of every signature of one character or more,
\* (L / 4) * 3 - padding in size_t arithmetic, lies in 0 .. L.
\* (Stated as claimed; the code does not do this.)
C25_DecodedLengthInRange ==
    (b64.done /\ Len(b64.signature) >= 1) =>
        b64.length \in 0 .. Len(b64.signature)

====
